---- MODULE Spec2Model ----
(***************************************************************************)
(* The village state machine (src/src/village.rs) and the mini virtual     *)
(* machine (src/src/mini.rs) of the board game, as one state machine.      *)
(*                                                                         *)
(* A Vec is a sequence (index 1 is the front).  A villager is a record     *)
(* [kind, label]; the Alive/Dead type state is the collection it is in.    *)
(* An instruction is a record [op, arg, body]: arg is the u8 an            *)
(* instruction carries (0 when it carries none), body its nested block.    *)
(* The instruction stack is a Vec read back to front: the next             *)
(* instruction is the last element.                                        *)
(***************************************************************************)
EXTENDS Integers, Sequences, FiniteSets, TLC

VARIABLES
    living_villagers,   \* Village.living_villagers : Vec<LivingVillager>
    dead_villagers,     \* Village.dead_villagers : Vec<DeadVillager>
    status,             \* Village.status
    layout,             \* Village.layout
    instruction_stack,  \* Mini.instruction_stack
    register,           \* Mini.register
    mini_status,        \* Mini.status
    location,           \* Mini.location
    log,                \* Mini.log
    pc,                 \* "nomini": no mini in scope; "idle": a mini, no call in
                        \* progress; "run", "night": the call in progress; "panic"
    murderers,          \* run_night: the murderer labels still to take their turn
    kill_result,        \* the last call, if a direct kill_villager: its argument
                        \* and then what it returned; <<>> otherwise
    calls,              \* run_until_completion calls made on the current mini
    frame,              \* history: one entry per instruction_stack entry
    turns               \* history: the turns taken so far in the night in progress

village_vars == <<living_villagers, dead_villagers, status, layout>>
mini_vars == <<instruction_stack, register, mini_status, location, log>>
vars == <<living_villagers, dead_villagers, status, layout, instruction_stack,
          register, mini_status, location, log, pc, murderers, kill_result,
          calls, frame, turns>>

----------------------------------------------------------------------------
(* Program constants and bounds *)

U8Max == 255

\* Village::new is called with counts that add up to at most MaxVillagers
MaxVillagers == 2
\* Repeat counts of the programs run are 0..MaxRepeat
MaxRepeat == 2
\* run_until_completion is called at most MaxCalls times on one mini
MaxCalls == 2
\* the programs on the register have at most MaxOps instructions
MaxOps == 3
\* the villages whose nights are resolved have at most MaxNight villagers
MaxNight == 3

----------------------------------------------------------------------------
(* Sequence helpers *)

Last(s) == s[Len(s)]

Front(s) == SubSeq(s, 1, Len(s) - 1)

RemoveAt(s, i) == SubSeq(s, 1, i - 1) \o SubSeq(s, i + 1, Len(s))

\* Iterator::position / find: the first index whose element has the label, 0 if none
Position(s, label) ==
    IF \E i \in 1..Len(s) : s[i].label = label
    THEN CHOOSE i \in 1..Len(s) :
            /\ s[i].label = label
            /\ \A j \in 1..(i - 1) : s[j].label # label
    ELSE 0

----------------------------------------------------------------------------
(* Villagers and the village: src/src/village.rs *)

Villager(kind, label) == [kind |-> kind, label |-> label]

\* LivingVillager::kill: the dead record has the same kind and label
KillWipesKind(villager) == [kind |-> "Normal", label |-> villager.label]

Kill(villager) == [kind |-> villager.kind, label |-> villager.label]

\* LivingVillager::set_kind
SetKind(villager, kind) == [kind |-> kind, label |-> villager.label]

\* Village::layout: a clone of the layout field
LayoutOfLiving == living_villagers \o dead_villagers

Layout == layout

\* Village::villager_exists
villager_exists(label) ==
    \/ \E i \in 1..Len(dead_villagers) : dead_villagers[i].label = label
    \/ \E i \in 1..Len(living_villagers) : living_villagers[i].label = label

\* Village::living_villager(label).is_some()
living_villager(label) == Position(living_villagers, label) # 0

\* Village::dead_villager(label).is_some()
dead_villager(label) == Position(dead_villagers, label) # 0

\* Village::villager_type: the living villager first, then the dead one
villager_type(label) ==
    IF living_villager(label)
    THEN living_villagers[Position(living_villagers, label)].kind
    ELSE IF dead_villager(label)
         THEN dead_villagers[Position(dead_villagers, label)].kind
         ELSE "NoSuchVillager"

\* Village::kill_villager: the collections and the result after the call
KillKeepsLiving(lv, dv, label) ==
    LET position == Position(lv, label) IN
    IF position = 0
    THEN [living |-> lv, dead |-> dv, result |-> <<"NoSuchVillager", label>>]
    ELSE [living |-> lv,
          dead |-> Append(dv, Kill(lv[position])),
          result |-> <<"Ok">>]

KillDropsVillager(lv, dv, label) ==
    LET position == Position(lv, label) IN
    IF position = 0
    THEN [living |-> lv, dead |-> dv, result |-> <<"NoSuchVillager", label>>]
    ELSE [living |-> RemoveAt(lv, position), dead |-> dv, result |-> <<"Ok">>]

kill_villager(lv, dv, label) ==
    LET position == Position(lv, label) IN
    IF position = 0
    THEN [living |-> lv, dead |-> dv, result |-> <<"NoSuchVillager", label>>]
    ELSE [living |-> RemoveAt(lv, position),
          dead |-> Append(dv, Kill(lv[position])),
          result |-> <<"Ok">>]

\* the count of living murderers in update_status
MurdererCount(lv) ==
    Cardinality({i \in 1..Len(lv) : lv[i].kind = "Murderer"})

\* Village::update_status: the status after the call
UpdateStatusMurderersFirst(lv, st) ==
    IF MurdererCount(lv) = Len(lv) THEN "MurdersWon"
    ELSE IF MurdererCount(lv) = 0 THEN "VillagersWon"
    ELSE st

UpdateStatusVillagersOnly(lv, st) ==
    IF MurdererCount(lv) = 0 THEN "VillagersWon" ELSE st

UpdateStatusMurderersOnly(lv, st) ==
    IF MurdererCount(lv) = Len(lv) THEN "MurdersWon" ELSE st

update_status(lv, st) ==
    IF MurdererCount(lv) = 0 THEN "VillagersWon"
    ELSE IF MurdererCount(lv) = Len(lv) THEN "MurdersWon"
    ELSE st

----------------------------------------------------------------------------
(* Night resolution: Village::run_night *)

\* the labels of all living murderers, in the order of living_villagers
IsMurderer(villager) == villager.kind = "Murderer"

MurdererLabelsTwice(lv) ==
    LET found == SelectSeq(lv, IsMurderer)
    IN [i \in 1..(2 * Len(found)) |-> found[((i - 1) % Len(found)) + 1].label]

MurdererLabels(lv) ==
    LET found == SelectSeq(lv, IsMurderer)
    IN [i \in 1..Len(found) |-> found[i].label]

\* the closure both searches pass to find: a living villager that is no murderer
LivingAnyone(label) == living_villager(label)

LivingNonMurderer(label) ==
    /\ living_villager(label)
    /\ living_villagers[Position(living_villagers, label)].kind # "Murderer"

\* the first label of (murder_label + 1)..=u8::MAX. The sum is a u8: at
\* murder_label = u8::MAX it overflows, which panics in a build with overflow
\* checks (written -1 here) and wraps to 0 in a build without them.
AboveStarts(murder_label) ==
    IF murder_label = U8Max THEN {-1, 0} ELSE {murder_label + 1}

\* neighbors_above.find(..): the least label from first up to u8::MAX; -1 is None
ToKillAboveFarthest(first) ==
    LET found == {label \in first..U8Max : LivingNonMurderer(label)} IN
    IF found = {} THEN -1
    ELSE CHOOSE label \in found : \A other \in found : label >= other

ToKillAbove(first) ==
    LET found == {label \in first..U8Max : LivingNonMurderer(label)} IN
    IF found = {} THEN -1
    ELSE CHOOSE label \in found : \A other \in found : label <= other

\* neighbors_below.find(..) over (1..murder_label).rev(): the greatest label
\* from murder_label - 1 down to 1; -1 is None
ToKillBelowNone(murder_label) == -1

ToKillBelow(murder_label) ==
    LET found == {label \in 1..(murder_label - 1) : LivingNonMurderer(label)} IN
    IF found = {} THEN -1
    ELSE CHOOSE label \in found : \A other \in found : label >= other

\* the match on villager_type(to_kill): a Strong(true) target has its kind set
\* to Strong(false), any other target is killed
AttackAlwaysKills(lv, dv, to_kill) ==
    [living |-> kill_villager(lv, dv, to_kill).living,
     dead |-> kill_villager(lv, dv, to_kill).dead]

Attack(lv, dv, to_kill) ==
    IF villager_type(to_kill) = "Strong(true)"
    THEN [living |-> [lv EXCEPT ![Position(lv, to_kill)] =
                          SetKind(lv[Position(lv, to_kill)], "Strong(false)")],
          dead |-> dv]
    ELSE [living |-> kill_villager(lv, dv, to_kill).living,
          dead |-> kill_villager(lv, dv, to_kill).dead]

\* the match on random_bool(0.5): the find of the direction drawn, whatever
\* the other one found
ToKillFallsBack(above, first, murder_label) ==
    IF above
    THEN IF ToKillAbove(first) # -1 THEN ToKillAbove(first)
         ELSE ToKillBelow(murder_label)
    ELSE IF ToKillBelow(murder_label) # -1 THEN ToKillBelow(murder_label)
         ELSE ToKillAbove(first)

ToKill(above, first, murder_label) ==
    IF above THEN ToKillAbove(first) ELSE ToKillBelow(murder_label)

\* run_night is entered: the labels of the living murderers are collected
NightBegin ==
    /\ pc = "nomini"
    /\ pc' = "night"
    /\ murderers' = MurdererLabels(living_villagers)
    /\ kill_result' = <<>>
    /\ turns' = <<>>
    /\ UNCHANGED <<village_vars, mini_vars, calls, frame>>

\* one iteration of the for loop: the turn of the next murderer
MurdererTurn ==
    /\ pc = "night"
    /\ murderers # <<>>
    /\ LET murder_label == Head(murderers) IN
       \E first \in AboveStarts(murder_label), above \in BOOLEAN :
          IF first = -1
          THEN /\ pc' = "panic"
               /\ UNCHANGED <<living_villagers, dead_villagers, murderers, turns>>
          ELSE LET to_kill == ToKill(above, first, murder_label)
                   after == Attack(living_villagers, dead_villagers, to_kill)
               IN /\ pc' = "night"
                  /\ murderers' = Tail(murderers)
                  /\ turns' = Append(turns, [murderer |-> murder_label,
                                             above |-> above,
                                             to_kill |-> to_kill])
                  /\ living_villagers' =
                        IF to_kill = -1 THEN living_villagers ELSE after.living
                  /\ dead_villagers' =
                        IF to_kill = -1 THEN dead_villagers ELSE after.dead
    /\ UNCHANGED <<status, layout, mini_vars, kill_result, calls, frame>>

\* the for loop is over: update_status, and run_night returns
NightEnd ==
    /\ pc = "night"
    /\ murderers = <<>>
    /\ status' = update_status(living_villagers, status)
    /\ pc' = "nomini"
    /\ turns' = <<>>
    /\ UNCHANGED <<living_villagers, dead_villagers, layout, mini_vars,
                   murderers, kill_result, calls, frame>>

\* a direct call of Village::kill_villager
KillVillager(label) ==
    /\ pc = "nomini"
    /\ LET after == kill_villager(living_villagers, dead_villagers, label) IN
          /\ living_villagers' = after.living
          /\ dead_villagers' = after.dead
          /\ kill_result' = <<label>> \o after.result
    /\ UNCHANGED <<status, layout, mini_vars, pc, murderers, calls, frame,
                   turns>>

----------------------------------------------------------------------------
(* Instructions: src/src/mini.rs, enum Instruction *)

Instr(op, arg, body) == [op |-> op, arg |-> arg, body |-> body]

PostRegister == Instr("PostRegister", 0, <<>>)
PostFlare == Instr("PostFlare", 0, <<>>)
Detonate == Instr("Detonate", 0, <<>>)
Visit == Instr("Visit", 0, <<>>)
Increment == Instr("Increment", 0, <<>>)
Decrement == Instr("Decrement", 0, <<>>)
SetValue(value) == Instr("SetValue", value, <<>>)
VillagerIsAlive(instructions) == Instr("VillagerIsAlive", 0, instructions)
VillagerIsDead(instructions) == Instr("VillagerIsDead", 0, instructions)
RegisterEq(value, instructions) == Instr("RegisterEq", value, instructions)
Repeat(iterations, instructions) == Instr("Repeat", iterations, instructions)
Break == Instr("Break", 0, <<>>)

\* Events: enum Event, as sequences
PostedRegister(value) == <<"PostedRegister", value>>
PostedFlare == <<"PostedFlare">>
Finished == <<"Finished">>

----------------------------------------------------------------------------
(* The mini: src/src/mini.rs *)

\* Mini::visit_villager: the mini's status, location and log after the visit
VisitIgnoresDeath(label, st, loc, lg) ==
    IF ~villager_exists(label)
    THEN [status |-> "Lost", location |-> loc, log |-> lg]
    ELSE IF villager_type(label) = "Murderer"
    THEN [status |-> "Destroyed", location |-> label, log |-> <<>>]
    ELSE IF villager_type(label) = "Afraid"
    THEN [status |-> "Destroyed", location |-> label, log |-> lg]
    ELSE [status |-> st, location |-> label, log |-> lg]

VisitMovesWhenLost(label, st, loc, lg) ==
    IF ~villager_exists(label)
    THEN [status |-> "Lost", location |-> label, log |-> lg]
    ELSE IF dead_villager(label)
    THEN [status |-> st, location |-> label, log |-> lg]
    ELSE IF villager_type(label) = "Murderer"
    THEN [status |-> "Destroyed", location |-> label, log |-> <<>>]
    ELSE IF villager_type(label) = "Afraid"
    THEN [status |-> "Destroyed", location |-> label, log |-> lg]
    ELSE [status |-> st, location |-> label, log |-> lg]

VisitSparesAfraid(label, st, loc, lg) ==
    IF ~villager_exists(label)
    THEN [status |-> "Lost", location |-> loc, log |-> lg]
    ELSE IF dead_villager(label)
    THEN [status |-> st, location |-> label, log |-> lg]
    ELSE IF villager_type(label) = "Murderer"
    THEN [status |-> "Destroyed", location |-> label, log |-> <<>>]
    ELSE [status |-> st, location |-> label, log |-> lg]

VisitAfraidWipes(label, st, loc, lg) ==
    IF ~villager_exists(label)
    THEN [status |-> "Lost", location |-> loc, log |-> lg]
    ELSE IF dead_villager(label)
    THEN [status |-> st, location |-> label, log |-> lg]
    ELSE IF villager_type(label) \in {"Murderer", "Afraid"}
    THEN [status |-> "Destroyed", location |-> label, log |-> <<>>]
    ELSE [status |-> st, location |-> label, log |-> lg]

visit_villager(label, st, loc, lg) ==
    IF ~villager_exists(label)
    THEN [status |-> "Lost", location |-> loc, log |-> lg]
    ELSE IF dead_villager(label)
    THEN [status |-> st, location |-> label, log |-> lg]
    ELSE IF villager_type(label) = "Murderer"
    THEN [status |-> "Destroyed", location |-> label, log |-> <<>>]
    ELSE IF villager_type(label) = "Afraid"
    THEN [status |-> "Destroyed", location |-> label, log |-> lg]
    ELSE [status |-> st, location |-> label, log |-> lg]

\* the predicate a Condition instruction tests
ConditionOnRegister(instruction) ==
    CASE instruction.op = "VillagerIsAlive" -> living_villager(register)
      [] instruction.op = "VillagerIsDead" -> dead_villager(register)
      [] instruction.op = "RegisterEq" -> register = instruction.arg

ConditionHolds(instruction) ==
    CASE instruction.op = "VillagerIsAlive" -> living_villager(location)
      [] instruction.op = "VillagerIsDead" -> dead_villager(location)
      [] instruction.op = "RegisterEq" -> register = instruction.arg

\* Instruction::Repeat with iterations # 0: what is put on the stack, the
\* copy of the repeat with one iteration less first, then its instructions
RepeatPushSameCount(iterations, instructions) ==
    <<Repeat(iterations, instructions)>> \o instructions

RepeatPush(iterations, instructions) ==
    <<Repeat(iterations - 1, instructions)>> \o instructions

\* Instruction::Break: the loop that pops until the stack is empty (status
\* Done) or a Repeat has been popped
RECURSIVE BreakPop(_)
BreakPop(stack) ==
    IF stack = <<>> THEN [stack |-> <<>>, done |-> TRUE]
    ELSE IF Last(stack).op = "Repeat" THEN [stack |-> Front(stack), done |-> FALSE]
    ELSE BreakPop(Front(stack))

\* run_instruction with an empty stack: the status it sets
EmptyStackKeepsRunning == "Running"

EmptyStackStatus == "Done"

\* the loop condition of run_until_completion
LoopGuardAlways(st) == TRUE

LoopGuard(st) == st = "Running"

\* Operation::Increment: the register and the status after it
IncrementWraps(reg, st) ==
    [register |-> (reg + 1) % (U8Max + 1), status |-> st]

IncrementStep(reg, st) ==
    IF reg = U8Max THEN [register |-> reg, status |-> "Destroyed"]
    ELSE [register |-> reg + 1, status |-> st]

\* Action::Detonate: the label handed to kill_villager
DetonateAtLocation == location

DetonateTarget == register

\* run_instruction on a popped instruction, rest being the stack after the
\* pop: the mini's fields and the village's collections after the match
\* Action::Detonate: the status the mini is given after the kill
DetonateKeepsStatus == mini_status

DetonateStatus == "Destroyed"

Exec(instruction, rest) ==
    LET same == [stack |-> rest, register |-> register, status |-> mini_status,
                 location |-> location, log |-> log,
                 living |-> living_villagers, dead |-> dead_villagers]
        op == instruction.op
    IN
    CASE op = "PostRegister" ->
            [same EXCEPT !.log = Append(log, PostedRegister(register))]
      [] op = "PostFlare" ->
            [same EXCEPT !.log = Append(log, PostedFlare)]
      [] op = "Detonate" ->
            LET after == kill_villager(living_villagers, dead_villagers,
                                       DetonateTarget)
            IN [same EXCEPT !.living = after.living, !.dead = after.dead,
                            !.status = DetonateStatus]
      [] op = "Visit" ->
            LET after == visit_villager(register, mini_status, location, log)
            IN [same EXCEPT !.status = after.status,
                            !.location = after.location, !.log = after.log]
      [] op = "Increment" ->
            [same EXCEPT !.register = IncrementStep(register, mini_status).register,
                         !.status = IncrementStep(register, mini_status).status]
      [] op = "Decrement" ->
            IF register = 0 THEN [same EXCEPT !.status = "Destroyed"]
            ELSE [same EXCEPT !.register = register - 1]
      [] op = "SetValue" ->
            [same EXCEPT !.register = instruction.arg]
      [] op \in {"VillagerIsAlive", "VillagerIsDead", "RegisterEq"} ->
            IF ConditionHolds(instruction)
            THEN [same EXCEPT !.stack = rest \o instruction.body]
            ELSE same
      [] op = "Repeat" ->
            IF instruction.arg # 0
            THEN [same EXCEPT
                    !.stack = rest \o RepeatPush(instruction.arg, instruction.body)]
            ELSE same
      [] op = "Break" ->
            [same EXCEPT !.stack = BreakPop(rest).stack,
                         !.status = IF BreakPop(rest).done THEN "Done"
                                    ELSE mini_status]

\* History of the stack. frame[i] describes instruction_stack[i]:
\*   encl    the stack index of the continuation (the re-queued Repeat) of the
\*           innermost loop whose body the entry belongs to, 0 if in no loop
\*   cont    whether the entry is such a continuation
\*   n0      for a continuation, the count the Repeat had when it was reached
\*   started for a continuation, how often the body has been started since
Plain(encl) == [encl |-> encl, cont |-> FALSE, n0 |-> 0, started |-> 0]

FrameAfter(instruction, top, rest_frame, stack) ==
    LET base == Len(rest_frame)
        pushed == Len(stack) - base
    IN
    IF pushed <= 0 THEN SubSeq(rest_frame, 1, Len(stack))
    ELSE IF instruction.op = "Repeat"
    THEN rest_frame
         \o <<[encl |-> top.encl, cont |-> TRUE,
               n0 |-> IF top.cont THEN top.n0 ELSE instruction.arg,
               started |-> top.started + 1]>>
         \o [i \in 1..(pushed - 1) |-> Plain(base + 1)]
    ELSE rest_frame \o [i \in 1..pushed |-> Plain(top.encl)]

\* Mini::new: the fields are set, then the starting location is visited
MiniNew(starting_location, base_instructions) ==
    /\ pc = "nomini"
    /\ pc' = "idle"
    /\ LET after == visit_villager(starting_location, "Running",
                                   starting_location, <<>>)
       IN /\ instruction_stack' = base_instructions
          /\ register' = 0
          /\ mini_status' = after.status
          /\ location' = after.location
          /\ log' = after.log
    /\ calls' = 0
    /\ frame' = [i \in 1..Len(base_instructions) |-> Plain(0)]
    /\ kill_result' = <<>>
    /\ UNCHANGED <<village_vars, murderers, turns>>

\* run_until_completion is called
RunUntilCompletion ==
    /\ pc = "idle"
    /\ calls < MaxCalls
    /\ pc' = "run"
    /\ calls' = calls + 1
    /\ kill_result' = <<>>
    /\ UNCHANGED <<village_vars, mini_vars, murderers, frame, turns>>

\* one iteration of the while loop: run_instruction
RunInstruction ==
    /\ pc = "run"
    /\ LoopGuard(mini_status)
    /\ IF instruction_stack = <<>>
       THEN /\ mini_status' = EmptyStackStatus
            /\ UNCHANGED <<instruction_stack, register, location, log,
                           living_villagers, dead_villagers, frame>>
       ELSE LET instruction == Last(instruction_stack)
                after == Exec(instruction, Front(instruction_stack))
            IN /\ instruction_stack' = after.stack
               /\ register' = after.register
               /\ mini_status' = after.status
               /\ location' = after.location
               /\ log' = after.log
               /\ living_villagers' = after.living
               /\ dead_villagers' = after.dead
               /\ frame' = FrameAfter(instruction, Last(frame), Front(frame),
                                      after.stack)
    /\ UNCHANGED <<status, layout, pc, murderers, kill_result, calls, turns>>

\* the condition under which run_until_completion pushes Finished
FinishedPushedAlways(st) == TRUE

FinishedPushed(st) == st = "Done"

\* the while loop is left: Finished is pushed if the status is Done
RunReturn ==
    /\ pc = "run"
    /\ ~LoopGuard(mini_status)
    /\ log' = IF FinishedPushed(mini_status) THEN Append(log, Finished) ELSE log
    /\ pc' = "idle"
    /\ UNCHANGED <<village_vars, instruction_stack, register, mini_status,
                   location, murderers, kill_result, calls, frame, turns>>

\* the mini goes out of scope (the end of the loop body in main)
MiniDrop ==
    /\ pc = "idle"
    /\ pc' = "nomini"
    /\ instruction_stack' = <<>>
    /\ register' = 0
    /\ mini_status' = "Running"
    /\ location' = 0
    /\ log' = <<>>
    /\ calls' = 0
    /\ frame' = <<>>
    /\ UNCHANGED <<village_vars, murderers, kill_result, turns>>

----------------------------------------------------------------------------
(* The instruction source: src/src/parser.rs *)

\* Iterator::rev on a Vec
Reverse(s) == [i \in 1..Len(s) |-> s[Len(s) + 1 - i]]

\* instructions(): the instructions of a block of source text, in the order
\* of the text; the block of a condition or of a repeat is parsed by the
\* same parser and stored reversed, a repeat with u8::MAX iterations.
\* The text is given as its tree, a repeat carrying 0 for the count it does
\* not have.
RECURSIVE instructions(_)
instructions(source) ==
    [i \in 1..Len(source) |->
        IF source[i].op \in {"VillagerIsAlive", "VillagerIsDead", "RegisterEq"}
        THEN Instr(source[i].op, source[i].arg,
                   Reverse(instructions(source[i].body)))
        ELSE IF source[i].op = "Repeat"
        THEN Repeat(U8Max, Reverse(instructions(source[i].body)))
        ELSE source[i]]

\* parse_instructions: the output of instructions(), reversed
ParseKeepsOrder(source) == instructions(source)

parse_instructions(source) == Reverse(instructions(source))

----------------------------------------------------------------------------
(* The game loop: src/src/main.rs, fn main *)

\* the instructions are read, a starting location is asked for until a
\* villager has that label, and the mini is built
MainMini(starting_location, base_instructions) ==
    /\ status = "Running"
    /\ villager_exists(starting_location)
    /\ MiniNew(starting_location, base_instructions)

\* mini.run_until_completion(&mut village), once
MainRun ==
    /\ calls = 0
    /\ RunUntilCompletion

\* the log is printed and village.run_night() is entered; nothing reads the
\* mini after that
MainNight ==
    /\ pc = "idle"
    /\ calls = 1
    /\ pc' = "night"
    /\ murderers' = MurdererLabels(living_villagers)
    /\ kill_result' = <<>>
    /\ turns' = <<>>
    /\ instruction_stack' = <<>>
    /\ register' = 0
    /\ mini_status' = "Running"
    /\ location' = 0
    /\ log' = <<>>
    /\ calls' = 0
    /\ frame' = <<>>
    /\ UNCHANGED village_vars

----------------------------------------------------------------------------
(* Village construction *)

\* Village::new_deterministic (and the end of Village::new): the village
\* built from a roster, no mini in scope yet
InitVillage(villagers) ==
    /\ living_villagers = villagers
    /\ dead_villagers = <<>>
    /\ status = "Running"
    /\ layout = villagers
    /\ instruction_stack = <<>>
    /\ register = 0
    /\ mini_status = "Running"
    /\ location = 0
    /\ log = <<>>
    /\ pc = "nomini"
    /\ murderers = <<>>
    /\ kill_result = <<>>
    /\ calls = 0
    /\ frame = <<>>
    /\ turns = <<>>

\* Village::new_deterministic, followed by Mini::new on that village
InitWith(villagers, starting_location, base_instructions) ==
    /\ living_villagers = villagers
    /\ dead_villagers = <<>>
    /\ status = "Running"
    /\ layout = villagers
    /\ instruction_stack = base_instructions
    /\ register = 0
    /\ mini_status =
          visit_villager(starting_location, "Running", starting_location, <<>>).status
    /\ location =
          visit_villager(starting_location, "Running", starting_location, <<>>).location
    /\ log = visit_villager(starting_location, "Running", starting_location, <<>>).log
    /\ pc = "idle"
    /\ murderers = <<>>
    /\ kill_result = <<>>
    /\ calls = 0
    /\ frame = [i \in 1..Len(base_instructions) |-> Plain(0)]
    /\ turns = <<>>

\* Village::new: the villagers in the order normal, strong, afraid, murderers,
\* the i-th labelled ids[i] as u8, ids being the shuffled 1..=villagers.len()
VillageNew(normal_villagers, strong_villagers, afraid_villagers, murderer_count, ids) ==
    LET kinds == [i \in 1..normal_villagers |-> "Normal"]
                 \o [i \in 1..strong_villagers |-> "Strong(true)"]
                 \o [i \in 1..afraid_villagers |-> "Afraid"]
                 \o [i \in 1..murderer_count |-> "Murderer"]
    IN [i \in 1..Len(kinds) |-> Villager(kinds[i], ids[i] % (U8Max + 1))]

\* the outcomes of ids.shuffle: the permutations of 1..=total
Shuffles(total) ==
    {ids \in [1..total -> 1..total] :
        \A i, j \in 1..total : ids[i] = ids[j] => i = j}

----------------------------------------------------------------------------
(* The inputs the model runs the program on *)

SeqsUpTo(S, n) == UNION {[1..k -> S] : k \in 0..n}

Kinds == {"Normal", "Strong(true)", "Afraid", "Murderer"}

\* the kinds a roster handed to Village::new_deterministic can hold
RosterKinds == Kinds \cup {"Strong(false)"}

\* the labels given as starting location, to SetValue and to kill_villager
Bytes == 0..MaxVillagers

\* the counts Village::new is called with
Counts ==
    {c \in [1..4 -> 0..MaxVillagers] : c[1] + c[2] + c[3] + c[4] <= MaxVillagers}

\* the villages Village::new builds
RandomRosters ==
    UNION {{VillageNew(c[1], c[2], c[3], c[4], ids) :
                ids \in Shuffles(c[1] + c[2] + c[3] + c[4])} : c \in Counts}

\* the programs of the minis sent into a game: set v, then detonate
GamePrograms ==
    {<<>>} \cup {<<Detonate, SetValue(value)>> : value \in Bytes}

\* the programs that exercise the control flow of the VM
Leaves == {PostRegister, Increment, Decrement, Break}

Inner ==
    Leaves
    \cup {Repeat(iterations, body) :
            iterations \in 0..MaxRepeat, body \in SeqsUpTo(Leaves, 1)}
    \cup {RegisterEq(1, body) : body \in SeqsUpTo(Leaves, 1)}

Blocks == SeqsUpTo(Inner, 2)

VMPrograms ==
    {after \o block :
        after \in {<<>>, <<PostRegister>>},
        block \in Blocks \cup {<<Repeat(iterations, body)>> :
                                  iterations \in 0..MaxRepeat, body \in Blocks}}

\* the villages Village::new builds for the nights
NightCounts ==
    {c \in [1..4 -> 0..MaxNight] : c[1] + c[2] + c[3] + c[4] <= MaxNight}

NightRosters ==
    UNION {{VillageNew(c[1], c[2], c[3], c[4], ids) :
                ids \in Shuffles(c[1] + c[2] + c[3] + c[4])} : c \in NightCounts}

\* the rosters of one murderer and one other villager, in either order
DuelRosters ==
    {<<Villager(first_kind, first_label), Villager(second_kind, second_label)>> :
        first_kind \in RosterKinds, second_kind \in RosterKinds,
        first_label \in 1..MaxNight, second_label \in 1..MaxNight}
    \cap {villagers \in [1..2 -> [kind : RosterKinds, label : 1..MaxNight]] :
            /\ villagers[1].label # villagers[2].label
            /\ (villagers[1].kind = "Murderer") # (villagers[2].kind = "Murderer")}

\* the rosters handed to Village::new_deterministic as the tests do: labels
\* ascending from 1, a Strong villager in either resistance state
DeterministicRosters ==
    {[i \in 1..Len(kinds) |-> Villager(kinds[i], i)] :
        kinds \in SeqsUpTo(RosterKinds, MaxVillagers)}

\* the programs that visit: post, set v, visit, flare
VisitPrograms ==
    {<<PostFlare, Visit, SetValue(value), PostRegister>> : value \in Bytes}

\* the programs of the VM's test of the conditions: a condition of each
\* kind whose block increments and posts the register, after a SetValue and
\* before a PostFlare
ConditionBlock == <<PostRegister, Increment>>

ConditionPrograms ==
    {<<PostFlare, condition, SetValue(value)>> :
        condition \in {VillagerIsAlive(ConditionBlock),
                       VillagerIsDead(ConditionBlock),
                       RegisterEq(1, ConditionBlock)},
        value \in Bytes}

\* source texts whose order of execution shows in the log: "set k post
\* register" for k = 1..7 in the order of the text and a final "post flare",
\* the middle ones inside three nested blocks, each an "if eq", an "if
\* alive" or a "repeat" that ends with "break"
Segment(k) == <<SetValue(k), PostRegister>>

BlockKinds == {"if eq", "if alive", "repeat"}

SourceBlock(kind, k, body) ==
    CASE kind = "if eq" -> RegisterEq(k, body)
      [] kind = "if alive" -> VillagerIsAlive(body)
      [] kind = "repeat" -> Repeat(0, body \o <<Break>>)

SourcePrograms ==
    {Segment(1)
        \o <<SourceBlock(k1, 1,
               Segment(2)
                 \o <<SourceBlock(k2, 2,
                        Segment(3) \o <<SourceBlock(k3, 3, Segment(4))>>
                                   \o Segment(5))>>
                 \o Segment(6))>>
        \o Segment(7) \o <<PostFlare>> :
     k1 \in BlockKinds, k2 \in BlockKinds, k3 \in BlockKinds}

\* rosters handed to Village::new_deterministic whose labels, all different,
\* are at the two ends of a u8
ExtremeLabels == {0, 1, U8Max - 1, U8Max}

ExtremeRosters ==
    {villagers \in SeqsUpTo({Villager(kind, label) :
                                kind \in RosterKinds, label \in ExtremeLabels},
                            MaxVillagers) :
        \A i, j \in 1..Len(villagers) :
            villagers[i].label = villagers[j].label => i = j}

\* programs that end with a detonation at one label, after a visit to or a
\* detonation at another
DetonatePrograms ==
    {<<Detonate, SetValue(second)>> \o <<action, SetValue(first)>> :
        first \in Bytes, second \in Bytes, action \in {Visit, Detonate}}

\* the programs on the register: the operations, around both ends of a u8
RegisterValues == {0, 1, U8Max - 1, U8Max}

RegisterPrograms ==
    SeqsUpTo({Increment, Decrement, PostRegister}
                \cup {SetValue(value) : value \in RegisterValues}, MaxOps)

----------------------------------------------------------------------------
(* Specifications *)

\* a game: a village built by Village::new, then any sequence of minis,
\* nights and direct kills
Init == \E villagers \in RandomRosters : InitVillage(villagers)

Next ==
    \/ \E starting_location \in Bytes, base_instructions \in GamePrograms :
          MiniNew(starting_location, base_instructions)
    \/ RunUntilCompletion
    \/ RunInstruction
    \/ RunReturn
    \/ MiniDrop
    \/ NightBegin
    \/ MurdererTurn
    \/ NightEnd
    \/ \E label \in Bytes : KillVillager(label)

\* the same without direct kills: minis and nights only
NextMinisAndNights ==
    \/ \E starting_location \in Bytes, base_instructions \in GamePrograms :
          MiniNew(starting_location, base_instructions)
    \/ RunUntilCompletion
    \/ RunInstruction
    \/ RunReturn
    \/ MiniDrop
    \/ NightBegin
    \/ MurdererTurn
    \/ NightEnd

SpecMinisAndNights == Init /\ [][NextMinisAndNights]_vars

Spec == Init /\ [][Next]_vars

\* a village built from any roster: new_deterministic does not look at the
\* labels it is given
AnyRosters ==
    SeqsUpTo({Villager(kind, label) : kind \in Kinds, label \in 1..2},
             MaxVillagers)

\* Village::new called with counts that add up to more than u8::MAX, here
\* new(255, 2, 0, 0), for one outcome of the shuffle (none: ids[i] = i)
OverfullRoster == VillageNew(U8Max, 2, 0, 0, [i \in 1..(U8Max + 2) |-> i])

InitAnyRoster ==
    \E villagers \in AnyRosters \cup {OverfullRoster} : InitVillage(villagers)

SpecAnyRoster == InitAnyRoster /\ [][Next]_vars

\* direct kills and nights in a village built from any roster
NextKillsAndNights ==
    \/ \E label \in Bytes : KillVillager(label)
    \/ NightBegin
    \/ MurdererTurn
    \/ NightEnd

SpecKillsAndNights == InitAnyRoster /\ [][NextKillsAndNights]_vars

\* a game in a village built by Village::new, the counts adding up to at
\* most MaxVillagers or to more than u8::MAX
InitGenerated ==
    \E villagers \in RandomRosters \cup {OverfullRoster} : InitVillage(villagers)

SpecGenerated == InitGenerated /\ [][Next]_vars

\* the life of one mini in the village of the VM's tests
InitVM ==
    \E starting_location \in {0, 1}, base_instructions \in VMPrograms :
        InitWith(<<Villager("Normal", 1)>>, starting_location, base_instructions)

NextVM ==
    \/ RunUntilCompletion
    \/ RunInstruction
    \/ RunReturn

SpecVM == InitVM /\ [][NextVM]_vars

\* night after night in a village built by Village::new
InitNight == \E villagers \in NightRosters : InitVillage(villagers)

NextNight ==
    \/ NightBegin
    \/ MurdererTurn
    \/ NightEnd

SpecNight == InitNight /\ [][NextNight]_vars

\* a turn in which random_bool(0.5) is true, and one in which it is false
TurnAbove == MurdererTurn /\ Last(turns').above

TurnBelow == MurdererTurn /\ ~Last(turns').above

\* a murderer and one other villager, at any two labels
InitDuel == \E villagers \in DuelRosters : InitVillage(villagers)

SpecDuel == InitDuel /\ [][NextNight]_vars

\* nights keep being resolved, each runs to its end, and the coin of
\* random_bool(0.5) does not fall on the same side for ever
SpecDuelFair ==
    /\ SpecDuel
    /\ WF_vars(NightBegin)
    /\ WF_vars(NightEnd)
    /\ SF_vars(TurnAbove)
    /\ SF_vars(TurnBelow)

\* minis that visit, in a village where villagers are killed in between
InitVisits == \E villagers \in DeterministicRosters : InitVillage(villagers)

NextVisits ==
    \/ \E starting_location \in Bytes, base_instructions \in VisitPrograms :
          MiniNew(starting_location, base_instructions)
    \/ RunUntilCompletion
    \/ RunInstruction
    \/ RunReturn
    \/ MiniDrop
    \/ \E label \in Bytes : KillVillager(label)

SpecVisits == InitVisits /\ [][NextVisits]_vars

\* minis testing conditions where they stand, in a village whose villagers
\* are killed between the minis
NextConditions ==
    \/ \E starting_location \in Bytes, base_instructions \in ConditionPrograms :
          MiniNew(starting_location, base_instructions)
    \/ RunUntilCompletion
    \/ RunInstruction
    \/ RunReturn
    \/ MiniDrop
    \/ \E label \in Bytes : KillVillager(label)

SpecConditions == InitVisits /\ [][NextConditions]_vars

\* night after night in a village whose labels are at the ends of a u8
InitExtremes == \E villagers \in ExtremeRosters : InitVillage(villagers)

SpecExtremes == InitExtremes /\ [][NextNight]_vars

\* a game: a village built by Village::new that has a villager to start a
\* mini at, then the loop of main: a mini, its run, a night, until the
\* status after a night is not Running
InitGame ==
    \E villagers \in RandomRosters \ {<<>>} : InitVillage(villagers)

NextGame ==
    \/ \E starting_location \in Bytes, base_instructions \in GamePrograms :
          MainMini(starting_location, base_instructions)
    \/ MainRun
    \/ RunInstruction
    \/ RunReturn
    \/ MainNight
    \/ MurdererTurn
    \/ NightEnd

SpecGame == InitGame /\ [][NextGame]_vars

\* the game goes on while it can: the player gives the inputs asked for
SpecGameFair == SpecGame /\ WF_vars(NextGame)

\* one mini that visits and detonates, in a village of any kinds
InitDetonate ==
    \E villagers \in DeterministicRosters, starting_location \in Bytes,
       base_instructions \in DetonatePrograms :
        InitWith(villagers, starting_location, base_instructions)

SpecDetonate == InitDetonate /\ [][NextVM]_vars

\* one mini running a program that parse_instructions has read
InitParsed ==
    \E source \in SourcePrograms :
        InitWith(<<Villager("Normal", 1)>>, 1, parse_instructions(source))

SpecParsed == InitParsed /\ [][NextVM]_vars

\* one mini running a program on its register
InitRegister ==
    \E base_instructions \in RegisterPrograms :
        InitWith(<<Villager("Normal", 1)>>, 1, base_instructions)

SpecRegister == InitRegister /\ [][NextVM]_vars

\* run_until_completion keeps stepping: the while loop does not stop between
\* two iterations, nor before its return
SpecVMFair == SpecVM /\ WF_vars(RunInstruction) /\ WF_vars(RunReturn)

----------------------------------------------------------------------------
(* Properties of the mini VM *)

\* the next run_instruction step pops a Break
BreakIsNext ==
    /\ pc = "run"
    /\ mini_status = "Running"
    /\ instruction_stack # <<>>
    /\ Last(instruction_stack).op = "Break"

\* C1: a Break executed inside the body of a Repeat exits the innermost
\* enclosing loop: it discards the rest of that loop's body and that loop's
\* continuation, and nothing else, so that what followed the loop comes next
\* and the mini keeps running.
C1_BreakExitsInnermostLoop ==
    [][(BreakIsNext /\ Last(frame).encl > 0)
        => /\ instruction_stack' =
                 SubSeq(instruction_stack, 1, Last(frame).encl - 1)
           /\ mini_status' = "Running"]_vars

\* C2: a Break executed outside every Repeat finishes the program: no
\* instruction that was still pending is left to execute (from the empty
\* stack the status can only become Done).
C2_BreakOutsideLoopFinishes ==
    [][(BreakIsNext /\ Last(frame).encl = 0) => instruction_stack' = <<>>]_vars

C9_RunTerminates ==
    (pc = "run") ~> (pc = "idle" /\ mini_status \in {"Done", "Destroyed", "Lost"})

\* a call has returned after a loop nested in a loop ran through its
\* iterations (a program without nested loops posts less)
C9_Witness ==
    /\ pc = "idle"
    /\ calls >= 1
    /\ mini_status = "Done"
    /\ Len(log) > 3 * MaxRepeat

\* the next run_instruction step pops a Repeat with no iteration left
ExhaustedRepeatIsNext ==
    /\ pc = "run"
    /\ mini_status = "Running"
    /\ instruction_stack # <<>>
    /\ Last(instruction_stack).op = "Repeat"
    /\ Last(instruction_stack).arg = 0

\* C10: a Repeat(n, body) starts its body at most n times: the starts made
\* and the iterations left on its continuation always add up to n, so the
\* loop is exhausted after exactly n starts; a Repeat with no iteration left
\* (at once for n = 0) executes nothing and leaves the instruction that
\* followed it as the next one.
C10_RepeatBound ==
    /\ [](\A i \in 1..Len(frame) :
            frame[i].cont
            => /\ instruction_stack[i].op = "Repeat"
               /\ frame[i].started + instruction_stack[i].arg = frame[i].n0)
    /\ [][ExhaustedRepeatIsNext
            => /\ instruction_stack' = Front(instruction_stack)
               /\ UNCHANGED <<register, mini_status, location, log,
                              village_vars>>]_vars

\* a loop reached with MaxRepeat iterations is exhausted, after MaxRepeat
\* starts of its body, and something follows it
C10_Witness ==
    /\ ExhaustedRepeatIsNext
    /\ Last(frame).cont
    /\ Last(frame).started = MaxRepeat
    /\ Len(instruction_stack) >= 2

\* the next run_instruction step pops an instruction with this op
OpIsNext(op) ==
    /\ pc = "run"
    /\ mini_status = "Running"
    /\ instruction_stack # <<>>
    /\ Last(instruction_stack).op = op

\* C11: the register never wraps: Increment adds one below 255 and Decrement
\* subtracts one above 0; Increment at 255 and Decrement at 0 set the status
\* to Destroyed and leave register, log, location and village as they are;
\* SetValue(v) sets the register to v.
C11_RegisterNeverWraps ==
    [][/\ OpIsNext("Increment")
            => IF register < U8Max
               THEN register' = register + 1 /\ mini_status' = mini_status
               ELSE /\ mini_status' = "Destroyed"
                    /\ UNCHANGED <<register, log, location, village_vars>>
       /\ OpIsNext("Decrement")
            => IF register > 0
               THEN register' = register - 1 /\ mini_status' = mini_status
               ELSE /\ mini_status' = "Destroyed"
                    /\ UNCHANGED <<register, log, location, village_vars>>
       /\ OpIsNext("SetValue")
            => /\ register' = Last(instruction_stack).arg
               /\ mini_status' = mini_status
       /\ register' \in 0..U8Max]_vars

\* an Increment at 255 has destroyed the mini (in these programs a Decrement
\* destroys it at 0 only) and the register is still 255
C11_Witness ==
    /\ mini_status = "Destroyed"
    /\ register = U8Max

\* a living villager has this label and one of these kinds
LivingOfKind(label, kinds) ==
    \E i \in 1..Len(living_villagers) :
        /\ living_villagers[i].label = label
        /\ living_villagers[i].kind \in kinds

\* Mini::new has just run: the step from no mini to a mini
MiniIsConstructed == pc = "nomini" /\ pc' = "idle"

\* C12: a visit (at construction, whose log is empty, or by the Visit action)
\* to a living Murderer sets the status to Destroyed and empties the log; to
\* a living Afraid villager it sets Destroyed and keeps the log; to a living
\* Normal or Strong villager or to a dead villager it changes neither.
C12_VisitOutcome ==
    [][/\ OpIsNext("Visit")
            => IF LivingOfKind(register, {"Murderer"})
               THEN mini_status' = "Destroyed" /\ log' = <<>>
               ELSE IF LivingOfKind(register, {"Afraid"})
               THEN mini_status' = "Destroyed" /\ log' = log
               ELSE IF \/ LivingOfKind(register,
                                       {"Normal", "Strong(true)", "Strong(false)"})
                       \/ register \in
                             {dead_villagers[i].label : i \in 1..Len(dead_villagers)}
               THEN mini_status' = mini_status /\ log' = log
               ELSE TRUE
       /\ MiniIsConstructed
            => /\ log' = <<>>
               /\ IF LivingOfKind(location', {"Murderer", "Afraid"})
                  THEN mini_status' = "Destroyed"
                  ELSE IF villager_exists(location')
                  THEN mini_status' = "Running"
                  ELSE TRUE]_vars

\* a mini that had posted its register has visited a living murderer: it is
\* destroyed and its log is empty
C12_Witness ==
    /\ pc = "run"
    /\ mini_status = "Destroyed"
    /\ instruction_stack = <<PostFlare>>
    /\ LivingOfKind(location, {"Murderer"})
    /\ register = location
    /\ log = <<>>

\* C13: the Visit action travels to the label in the register: if the label
\* exists, living or dead, the location becomes the register value; if not,
\* the status becomes Lost and the location stays. Lost arises only from a
\* visit, at construction or by Visit, to a label that does not exist.
C13_VisitGoesToRegister ==
    [][/\ OpIsNext("Visit")
            => IF villager_exists(register)
               THEN location' = register /\ mini_status' # "Lost"
               ELSE mini_status' = "Lost" /\ location' = location
       /\ (pc' # "nomini" /\ mini_status' = "Lost" /\ mini_status # "Lost")
            => \/ OpIsNext("Visit") /\ ~villager_exists(register)
               \/ MiniIsConstructed /\ ~villager_exists(location')]_vars

\* a mini standing at an existing label has got lost on the way to the label
\* in its register, and is still where it was
C13_Witness ==
    /\ pc = "run"
    /\ mini_status = "Lost"
    /\ instruction_stack = <<PostFlare>>
    /\ villager_exists(location)
    /\ ~villager_exists(register)

----------------------------------------------------------------------------
(* Properties of the village *)

LivingLabels == {living_villagers[i].label : i \in 1..Len(living_villagers)}

DeadLabels == {dead_villagers[i].label : i \in 1..Len(dead_villagers)}

\* C3: a label is in at most one of the living and the dead collection, and
\* villager_exists(label) is true iff the label is in exactly one of them.
C3_LabelInAtMostOneCollection ==
    \A label \in 0..U8Max :
        /\ ~(label \in LivingLabels /\ label \in DeadLabels)
        /\ villager_exists(label)
              <=> ((label \in LivingLabels) # (label \in DeadLabels))

\* C4: the village status is monotonic: once it is VillagersWon or
\* MurdersWon, no later operation changes it.
C4_StatusMonotonic ==
    [][status # "Running" => status' = status]_vars

\* C5: after every night resolution the status is VillagersWon iff no living
\* villager is a murderer, MurdersWon iff the living set is nonempty and all
\* murderers, and Running otherwise.
StatusOfLiving ==
    IF \A i \in 1..Len(living_villagers) : living_villagers[i].kind # "Murderer"
    THEN "VillagersWon"
    ELSE IF \A i \in 1..Len(living_villagers) :
                living_villagers[i].kind = "Murderer"
         THEN "MurdersWon"
         ELSE "Running"

C5_StatusAfterNight ==
    [][(pc = "night" /\ pc' = "nomini") => (status = StatusOfLiving)']_vars

\* a night has ended with nobody left alive, the last to die (by a mini or a
\* direct kill) being a murderer: the villagers have won
C5_Witness ==
    /\ pc = "nomini"
    /\ status = "VillagersWon"
    /\ living_villagers = <<>>
    /\ dead_villagers # <<>>
    /\ Last(dead_villagers).kind = "Murderer"

\* C7: a villager dies at most once and never comes back: the dead collection
\* only grows at its end, by records equal in label and kind to a villager
\* that was living in the state before; no label is dead twice, and a dead
\* label is not living.
C7_DeadStaysDead ==
    /\ [](/\ \A i, j \in 1..Len(dead_villagers) :
                dead_villagers[i].label = dead_villagers[j].label => i = j
          /\ LivingLabels \cap DeadLabels = {})
    /\ [][/\ Len(dead_villagers') >= Len(dead_villagers)
          /\ SubSeq(dead_villagers', 1, Len(dead_villagers)) = dead_villagers
          /\ \A i \in (Len(dead_villagers) + 1)..Len(dead_villagers') :
                \E j \in 1..Len(living_villagers) :
                    living_villagers[j] = dead_villagers'[i]]_vars

\* a Strong villager that lost its resistance in one night and was killed
\* later is dead with the kind it had when it died
C7_Witness ==
    \E i \in 1..Len(dead_villagers), j \in 1..Len(layout) :
        /\ dead_villagers[i].kind = "Strong(false)"
        /\ layout[j] = Villager("Strong(true)", dead_villagers[i].label)

\* C8: a direct kill of a label that is dead or was never generated returns
\* NoSuchVillager with that label and changes nothing in the village.
C8_KillOfAbsentFails ==
    [][(/\ pc = "nomini" /\ pc' = "nomini"
        /\ kill_result' # <<>>
        /\ \/ kill_result'[1] \in DeadLabels
           \/ \A i \in 1..Len(layout) : layout[i].label # kill_result'[1])
        => /\ kill_result' = <<kill_result'[1], "NoSuchVillager", kill_result'[1]>>
           /\ UNCHANGED village_vars]_vars

\* a second kill of the same label has failed
C8_Witness ==
    /\ Len(kill_result) = 3
    /\ kill_result[1] \in DeadLabels
    /\ kill_result[2] = "NoSuchVillager"

\* C14: Detonate always sets the mini's status to Destroyed; it kills the
\* living villager whose label is the register value, wherever the mini is;
\* when that label is dead or does not exist the village is unchanged and
\* the run goes on to its return (no error surfaces).
C14_DetonateKillsRegisterLabel ==
    [][OpIsNext("Detonate")
        => /\ mini_status' = "Destroyed"
           /\ pc' = "run"
           /\ status' = status
           /\ layout' = layout
           /\ IF register \in LivingLabels
              THEN \E i \in 1..Len(living_villagers) :
                      /\ living_villagers[i].label = register
                      /\ living_villagers' = RemoveAt(living_villagers, i)
                      /\ dead_villagers' =
                            Append(dead_villagers, living_villagers[i])
              ELSE UNCHANGED <<living_villagers, dead_villagers>>]_vars

\* a mini standing elsewhere has detonated at a label that was dead already
\* (the last to die is another villager): it is destroyed
C14_Witness ==
    /\ pc = "run"
    /\ mini_status = "Destroyed"
    /\ instruction_stack = <<>>
    /\ register # location
    /\ register \in DeadLabels
    /\ Last(dead_villagers).label # register

\* C15: a Strong villager with unused resistance is never moved to the dead
\* collection by the first attack on it, a night murder or a detonation: no
\* villager dies with the kind Strong(true).
C15_StrongSurvivesFirstAttack ==
    [][\A i \in (Len(dead_villagers) + 1)..Len(dead_villagers') :
            dead_villagers'[i].kind # "Strong(true)"]_vars

----------------------------------------------------------------------------
(* Properties of the night *)

NonMurdererKinds == {"Normal", "Afraid", "Strong(true)", "Strong(false)"}

\* a murderer's turn has just been taken, and it found somebody to attack
TurnAttacks ==
    /\ pc = "night"
    /\ Len(turns') = Len(turns) + 1
    /\ Last(turns').to_kill # -1

\* C16: when a murderer labelled m attacks a villager labelled t, t is a
\* living non-murderer, no living non-murderer has a label strictly between
\* m and t, and t is above m if the ascending direction was drawn, below m
\* if the descending one was.
C16_NearestInDirection ==
    [][TurnAttacks
        => LET m == Last(turns').murderer
               t == Last(turns').to_kill
           IN /\ m = Head(murderers)
              /\ LivingOfKind(t, NonMurdererKinds)
              /\ \A label \in 0..U8Max :
                    ((m < label /\ label < t) \/ (t < label /\ label < m))
                        => ~LivingOfKind(label, NonMurdererKinds)
              /\ IF Last(turns').above THEN t > m ELSE t < m]_vars

\* a murderer has attacked a villager that is not its neighbour by label:
\* the labels in between are dead or murderers
C16_Witness ==
    /\ pc = "night"
    /\ turns # <<>>
    /\ Last(turns).to_kill # -1
    /\ \/ Last(turns).to_kill > Last(turns).murderer + 1
       \/ Last(turns).to_kill < Last(turns).murderer - 1

\* C17: a target that is Strong with unused resistance becomes Strong with
\* used resistance and stays living, at its place and with its label; a
\* target of any other kind moves from living to dead; nothing else in the
\* village is changed by the turn.
C17_AttackEffect ==
    [][TurnAttacks
        => LET t == Last(turns').to_kill IN
           \E i \in 1..Len(living_villagers) :
              /\ living_villagers[i].label = t
              /\ status' = status
              /\ layout' = layout
              /\ IF living_villagers[i].kind = "Strong(true)"
                 THEN /\ living_villagers' =
                            [living_villagers EXCEPT
                                ![i] = Villager("Strong(false)", t)]
                      /\ dead_villagers' = dead_villagers
                 ELSE /\ living_villagers' = RemoveAt(living_villagers, i)
                      /\ dead_villagers' =
                            Append(dead_villagers, living_villagers[i])]_vars

\* a Strong villager has just lost its resistance to a murderer and lives
C17_Witness ==
    /\ pc = "night"
    /\ turns # <<>>
    /\ LivingOfKind(Last(turns).to_kill, {"Strong(false)"})
    /\ dead_villagers = <<>>

\* C18: when the direction drawn has no living non-murderer, the murderer's
\* turn changes nothing in the village, whatever the other direction holds.
C18_NoFallback ==
    [][(/\ pc = "night"
        /\ Len(turns') = Len(turns) + 1
        /\ LET m == Last(turns').murderer IN
           \A label \in 0..U8Max :
              LivingOfKind(label, NonMurdererKinds)
                  => IF Last(turns').above THEN label < m ELSE label > m)
        => UNCHANGED village_vars]_vars

\* a turn has been wasted on the empty side while a living non-murderer
\* stands on the other side
C18_Witness ==
    /\ pc = "night"
    /\ turns # <<>>
    /\ Last(turns).to_kill = -1
    /\ \E label \in 0..U8Max :
          /\ LivingOfKind(label, NonMurdererKinds)
          /\ IF Last(turns).above THEN label < Last(turns).murderer
             ELSE label > Last(turns).murderer

\* one murderer lives, and the only living non-murderer is the one labelled t
SoleNeighbour(t) ==
    /\ Cardinality({i \in 1..Len(living_villagers) :
                        living_villagers[i].kind = "Murderer"}) = 1
    /\ {living_villagers[i].label :
            i \in {j \in 1..Len(living_villagers) :
                        living_villagers[j].kind # "Murderer"}} = {t}

\* C19: with a single living murderer and a single living non-murderer,
\* nights resolved again and again under a fair choice of direction
\* eventually target that neighbour: if it is Strong with unused resistance
\* it is left living with used resistance (no night kills it in that state),
\* and otherwise, so also at the second targeting, it is killed.
C19_NeighbourEventuallyTargeted ==
    /\ \A t \in 1..MaxNight :
          /\ (SoleNeighbour(t) /\ LivingOfKind(t, {"Strong(true)"}))
                ~> LivingOfKind(t, {"Strong(false)"})
          /\ (SoleNeighbour(t)
                /\ LivingOfKind(t, NonMurdererKinds \ {"Strong(true)"}))
                ~> (t \in DeadLabels /\ t \notin LivingLabels)
    /\ [][\A t \in 1..MaxNight :
            LivingOfKind(t, {"Strong(true)"}) => t \notin DeadLabels']_vars

\* the only neighbour of the only murderer was Strong with unused resistance
\* and is dead, with its resistance used
C19_Witness ==
    /\ Len(living_villagers) = 1
    /\ living_villagers[1].kind = "Murderer"
    /\ Len(dead_villagers) = 1
    /\ dead_villagers[1].kind = "Strong(false)"
    /\ \E j \in 1..Len(layout) :
          layout[j] = Villager("Strong(true)", dead_villagers[1].label)

\* C20: night resolution never kills or alters a murderer, and every murderer
\* living at the start of the night takes exactly one turn: all through the
\* night the living murderers are those that have taken their turn followed
\* by those still to take it, and no step of the night changes them.
C20_MurderersUntouched ==
    /\ [](pc = "night"
            => MurdererLabels(living_villagers)
                  = [i \in 1..Len(turns) |-> turns[i].murderer] \o murderers)
    /\ [][SelectSeq(living_villagers', IsMurderer)
            = SelectSeq(living_villagers, IsMurderer)]_vars

\* a night of two murderers is at its end: both have taken their turn, and
\* somebody was attacked
C20_Witness ==
    /\ pc = "night"
    /\ murderers = <<>>
    /\ Len(turns) = 2
    /\ turns[1].murderer # turns[2].murderer
    /\ \E i \in 1..2 : turns[i].to_kill # -1

----------------------------------------------------------------------------
(* Properties of the roster *)

\* C21: random generation yields a village whose living villagers are the
\* generated roster, with no dead villager and the status Running, every
\* Strong villager with unused resistance, and the labels of the roster
\* pairwise distinct and exactly 1..=total.
C21_GeneratedVillage ==
    /\ living_villagers = layout
    /\ dead_villagers = <<>>
    /\ status = "Running"
    /\ \A i \in 1..Len(layout) : layout[i].kind \in Kinds
    /\ [](/\ \A i, j \in 1..Len(layout) :
                layout[i].label = layout[j].label => i = j
          /\ {layout[i].label : i \in 1..Len(layout)} = 1..Len(layout))

\* C22: the layout is an immutable snapshot of the original roster: no kill,
\* mini run or night changes the labels or kinds that layout() reports.
C22_LayoutImmutable ==
    [][Layout' = Layout]_vars

\* a Strong villager has lost its resistance in a night and lives, another
\* villager is dead, and the layout still shows the resistance unused
C22_Witness ==
    /\ dead_villagers # <<>>
    /\ \E i \in 1..Len(living_villagers), j \in 1..Len(Layout) :
          /\ living_villagers[i].kind = "Strong(false)"
          /\ Layout[j] = Villager("Strong(true)", living_villagers[i].label)

\* C23: after run_until_completion the last event of the log is Finished iff
\* the status is Done, and the log of a mini that ended Destroyed or Lost
\* holds no Finished event.
C23_FinishedIffDone ==
    (pc = "idle" /\ calls >= 1)
        => /\ (log # <<>> /\ Last(log) = Finished) <=> mini_status = "Done"
           /\ mini_status \in {"Destroyed", "Lost"}
                => \A i \in 1..Len(log) : log[i] # Finished

\* a mini has posted and was then destroyed: its run has returned and its
\* log ends with what it posted
C23_Witness ==
    /\ pc = "idle"
    /\ calls >= 1
    /\ mini_status = "Destroyed"
    /\ log # <<>>
    /\ Last(log) # Finished

\* C30: however often run_until_completion is called on a mini, its log
\* holds at most one Finished event, and Finished, when present, is the
\* last event.
C30_FinishedAtMostOnce ==
    /\ Cardinality({i \in 1..Len(log) : log[i] = Finished}) <= 1
    /\ \A i \in 1..Len(log) : log[i] = Finished => i = Len(log)

----------------------------------------------------------------------------
(* Properties of conditions, construction and the log *)

\* C24: a condition whose predicate holds puts its block on the stack, to be
\* executed next and before the pending instructions; one whose predicate
\* fails puts nothing.  VillagerIsAlive holds iff a living villager has the
\* label of the location, VillagerIsDead iff a dead one has it, RegisterEq(v)
\* iff the register is v.  A run that ends Done has posted what the block
\* posted before what the pending instructions posted.
C24_Conditions ==
    [][/\ \A op \in {"VillagerIsAlive", "VillagerIsDead", "RegisterEq"} :
            OpIsNext(op)
                => LET instruction == Last(instruction_stack)
                       holds ==
                           CASE op = "VillagerIsAlive" ->
                                    LivingOfKind(location, RosterKinds)
                             [] op = "VillagerIsDead" -> location \in DeadLabels
                             [] op = "RegisterEq" -> register = instruction.arg
                   IN  /\ instruction_stack' =
                             IF holds
                             THEN Front(instruction_stack) \o instruction.body
                             ELSE Front(instruction_stack)
                       /\ UNCHANGED <<register, mini_status, location, log,
                                      village_vars>>
       /\ (pc = "run" /\ pc' = "idle" /\ calls = 1 /\ mini_status = "Done")
            => \/ log' = <<PostedFlare, Finished>>
               \/ /\ register >= 1
                  /\ log' = <<PostedRegister(register), PostedFlare, Finished>>]_vars

\* a mini standing at a dead villager, its register holding another label
\* and not 1, has the block of a VillagerIsDead on its stack
C24_Witness ==
    /\ pc = "run"
    /\ instruction_stack = <<PostFlare>> \o ConditionBlock
    /\ location \in DeadLabels
    /\ register # location
    /\ register # 1

\* a mini that was terminal when constructed and has not run an instruction
ConstructedTerminal ==
    /\ pc \in {"idle", "run"}
    /\ mini_status \in {"Lost", "Destroyed"}
    /\ instruction_stack \in VisitPrograms

\* C25: a new mini has register 0, an empty log and the given program, and
\* has visited its starting location: it is Lost if no villager has that
\* label, Destroyed if a living Murderer or Afraid villager has it, Running
\* otherwise.  On a mini that was terminal when constructed,
\* run_until_completion executes nothing and changes neither the mini nor
\* the village.
C25_NewMini ==
    [][/\ MiniIsConstructed
            => /\ register' = 0
               /\ log' = <<>>
               /\ instruction_stack' \in VisitPrograms
               /\ mini_status' =
                     IF location' \notin LivingLabels \cup DeadLabels
                     THEN "Lost"
                     ELSE IF LivingOfKind(location', {"Murderer", "Afraid"})
                     THEN "Destroyed"
                     ELSE "Running"
       /\ (ConstructedTerminal /\ pc' # "nomini")
            => UNCHANGED <<instruction_stack, register, mini_status, location,
                           log, village_vars>>]_vars

\* a mini constructed at a living Afraid villager is Destroyed, and
\* run_until_completion has returned with the whole program still on the
\* stack
C25_Witness ==
    /\ pc = "idle"
    /\ calls >= 1
    /\ mini_status = "Destroyed"
    /\ instruction_stack \in VisitPrograms
    /\ LivingOfKind(location, {"Afraid"})
    /\ log = <<>>

\* C26: the log is append-only: a step of a mini leaves the log as it is or
\* appends one event at its end, except that a visit to a living Murderer,
\* which also sets the status to Destroyed, replaces it by the empty log.
C26_LogAppendOnly ==
    [][(pc \in {"idle", "run"} /\ pc' \in {"idle", "run"})
            => \/ log' = log
               \/ /\ Len(log') = Len(log) + 1
                  /\ SubSeq(log', 1, Len(log)) = log
               \/ /\ log' = <<>>
                  /\ OpIsNext("Visit")
                  /\ LivingOfKind(register, {"Murderer"})
                  /\ mini_status' = "Destroyed"]_vars

\* a mini whose log was emptied by a visit to a living murderer: its run has
\* returned, and its log is still empty
C26_Witness ==
    /\ pc = "idle"
    /\ calls >= 1
    /\ mini_status = "Destroyed"
    /\ instruction_stack = <<PostFlare>>
    /\ LivingOfKind(location, {"Murderer"})
    /\ log = <<>>

----------------------------------------------------------------------------
(* Properties of the instruction source *)

\* C27: the VM executes a parsed program in the order of its source text, at
\* the top level and inside every nested block: the log of a program that
\* posts 1..7 in the order of its text and then a flare is, at every moment,
\* a prefix of these posts in that order, and the whole of them followed by
\* Finished once the run has returned.  A repeat is compiled with 255
\* iterations: a Repeat on the stack has 255, or 254 once it was entered.
C27_SourceOrder ==
    /\ \A i \in 1..Len(log) :
          log[i] = IF i <= 7 THEN PostedRegister(i)
                   ELSE IF i = 8 THEN PostedFlare
                   ELSE Finished
    /\ (pc = "idle" /\ calls >= 1) => (Len(log) >= 9 /\ mini_status = "Done")
    /\ \A i \in 1..Len(instruction_stack) :
          instruction_stack[i].op = "Repeat"
              => instruction_stack[i].arg \in {U8Max, U8Max - 1}

\* inside three nested repeats, each entered once, when 1..4 are posted
C27_Witness ==
    /\ pc = "run"
    /\ Cardinality({i \in 1..Len(instruction_stack) :
                      /\ instruction_stack[i].op = "Repeat"
                      /\ instruction_stack[i].arg = U8Max - 1}) = 3
    /\ log = <<PostedRegister(1), PostedRegister(2), PostedRegister(3),
               PostedRegister(4)>>

----------------------------------------------------------------------------
(* Properties of the night at the ends of the label range *)

\* C29: night resolution is well defined for a murderer at any byte label:
\* no turn fails on arithmetic overflow, and the turn of a murderer labelled
\* m finds the least living non-murderer among the labels greater than m if
\* the ascending direction was drawn, the greatest one among the labels less
\* than m, label 0 included, if the descending one was, and nobody only if
\* there is none.
C29_ExtremeLabels ==
    [][pc = "night"
        => /\ pc' # "panic"
           /\ Len(turns') = Len(turns) + 1
                => LET m == Last(turns').murderer
                       t == Last(turns').to_kill
                       candidates ==
                           {label \in 0..U8Max :
                               /\ LivingOfKind(label, NonMurdererKinds)
                               /\ IF Last(turns').above
                                  THEN label > m ELSE label < m}
                   IN IF candidates = {}
                      THEN t = -1
                      ELSE /\ t \in candidates
                           /\ \A label \in candidates :
                                 IF Last(turns').above
                                 THEN t <= label ELSE t >= label]_vars

----------------------------------------------------------------------------
(* Properties of the game loop *)

\* the last turn taken in the night in progress was this murderer's
TurnOf(m) == turns # <<>> /\ Last(turns).murderer = m

\* random_bool(0.5) is fair: a murderer that takes turns for ever draws each
\* direction again and again
FairCoin ==
    \A m \in 1..MaxVillagers, above \in BOOLEAN :
        []<>TurnOf(m) => []<>(TurnOf(m) /\ Last(turns).above = above)

\* C28: in the game loop the status after a night is not Running exactly
\* when no murderer lives or every living villager is a murderer, the loop
\* takes no step once the status is not Running, and under fair direction
\* choices every game reaches a status that is not Running, whatever the
\* minis run.
C28_GameEnds ==
    /\ [][(pc = "night" /\ pc' = "nomini")
            => (status' # "Running"
                  <=> \/ MurdererCount(living_villagers') = 0
                      \/ MurdererCount(living_villagers') =
                            Len(living_villagers'))]_vars
    /\ [][status = "Running"]_vars
    /\ FairCoin => <>(status # "Running")

\* the murderers have won a game in which a Strong villager had to be
\* attacked twice
C28_Witness ==
    /\ pc = "nomini"
    /\ status = "MurdersWon"
    /\ \E i \in 1..Len(dead_villagers) : dead_villagers[i].kind = "Strong(false)"
    /\ \E i \in 1..Len(layout) : layout[i].kind = "Strong(true)"

----------------------------------------------------------------------------
(* Properties of the village as a whole *)

\* how many villagers of a collection have this label
LabelCount(villagers, label) ==
    Cardinality({i \in 1..Len(villagers) : villagers[i].label = label})

\* the labels of the layout, of the living and of the dead
LabelsHeld ==
    {layout[i].label : i \in 1..Len(layout)} \cup LivingLabels \cup DeadLabels

\* C31: villagers are conserved: every label is held by as many villagers
\* of the living and the dead collection together as of the layout, so the
\* living and the dead together are as many as the original roster.
C31_VillagersConserved ==
    /\ \A label \in LabelsHeld :
          LabelCount(living_villagers, label) + LabelCount(dead_villagers, label)
              = LabelCount(layout, label)
    /\ Len(living_villagers) + Len(dead_villagers) = Len(layout)

\* of two villagers with one label, one is dead and the other lives
C31_Witness ==
    \E label \in LabelsHeld :
        /\ LabelCount(living_villagers, label) = 1
        /\ LabelCount(dead_villagers, label) = 1
        /\ LabelCount(layout, label) = 2

\* C32: a mini affects the village only through Detonate: in the life of
\* one mini at most one villager is dead, every villager, living or dead,
\* has the kind and resistance of the roster, the status stays Running and
\* the layout stays; every step that is not the execution of a Detonate
\* leaves the whole village unchanged.
C32_OnlyDetonate ==
    /\ [](/\ Len(dead_villagers) <= 1
          /\ Len(living_villagers) + Len(dead_villagers) = Len(layout)
          /\ \A i \in 1..Len(living_villagers) :
                \E j \in 1..Len(layout) : layout[j] = living_villagers[i]
          /\ \A i \in 1..Len(dead_villagers) :
                \E j \in 1..Len(layout) : layout[j] = dead_villagers[i]
          /\ status = "Running")
    /\ [][/\ layout' = layout
          /\ ~OpIsNext("Detonate") => UNCHANGED village_vars]_vars

\* a mini has detonated at a Strong villager with unused resistance and its
\* run has returned; the detonation at another living villager is still on
\* its stack
C32_Witness ==
    /\ pc = "idle"
    /\ calls >= 1
    /\ Len(dead_villagers) = 1
    /\ dead_villagers[1].kind = "Strong(true)"
    /\ Len(instruction_stack) = 2
    /\ instruction_stack[1] = Detonate
    /\ LivingOfKind(instruction_stack[2].arg, RosterKinds)

\* C33: the status is recomputed by night resolution only: no step of a
\* mini and no direct kill changes it, so it stays Running after the last
\* living murderer was detonated; the night that follows kills nobody and
\* sets VillagersWon.
C33_StatusOnlyByNight ==
    [][/\ status' # status => (pc = "night" /\ pc' = "nomini")
       /\ (pc = "night" /\ MurdererCount(living_villagers) = 0)
            => /\ living_villagers' = living_villagers
               /\ dead_villagers' = dead_villagers
               /\ pc' = "nomini" => status' = "VillagersWon"]_vars

\* a mini has detonated the last living murderer, other villagers live, and
\* the status is still Running
C33_Witness ==
    /\ pc = "run"
    /\ mini_status = "Destroyed"
    /\ instruction_stack = <<>>
    /\ status = "Running"
    /\ living_villagers # <<>>
    /\ MurdererCount(living_villagers) = 0
    /\ dead_villagers # <<>>
    /\ Last(dead_villagers) = Villager("Murderer", register)

\* how many Strong villagers lose their resistance in the step
Flips ==
    Cardinality({label \in LivingLabels :
                    /\ LivingOfKind(label, {"Strong(true)"})
                    /\ LivingOfKind(label, {"Strong(false)"})'})

\* C34: within a night each murderer living at its start takes one turn, on
\* the village as the earlier turns left it: the turns taken and those to
\* come are as many as the living murderers and no murderer takes two; a
\* turn makes one death or one flip if it attacks and none if it does not,
\* so deaths and flips are at most as many as the murderers; nobody is dead
\* twice; a villager targeted a second time in the night was Strong with
\* unused resistance, was flipped by the first turn and is killed by the
\* second, and nobody is targeted a third time.
C34_OneTurnEach ==
    /\ [](pc = "night"
            => /\ Len(turns) + Len(murderers) = MurdererCount(living_villagers)
               /\ \A i, j \in 1..Len(turns) :
                     turns[i].murderer = turns[j].murderer => i = j
               /\ \A i \in 1..Len(turns) :
                     LivingOfKind(turns[i].murderer, {"Murderer"})
               /\ \A label \in DeadLabels : LabelCount(dead_villagers, label) = 1
               /\ \A i, j \in 1..Len(turns) :
                     (i < j /\ turns[i].to_kill = turns[j].to_kill
                            /\ turns[i].to_kill # -1)
                         => /\ \E d \in 1..Len(dead_villagers) :
                                  dead_villagers[d] =
                                      Villager("Strong(false)", turns[i].to_kill)
                            /\ \A k \in 1..Len(turns) :
                                  turns[k].to_kill = turns[i].to_kill
                                      => k \in {i, j})
    /\ [][(pc = "night" /\ Len(turns') = Len(turns) + 1)
            => LET t == Last(turns').to_kill IN
               /\ (Len(dead_villagers') - Len(dead_villagers)) + Flips
                     = IF t = -1 THEN 0 ELSE 1
               /\ (t # -1 /\ \E i \in 1..Len(turns) : turns[i].to_kill = t)
                     => /\ LivingOfKind(t, {"Strong(false)"})
                        /\ t \in DeadLabels']_vars

\* two murderers have attacked the same villager in one night, and it is
\* dead
C34_Witness ==
    /\ pc = "night"
    /\ Len(turns) = 2
    /\ turns[1].to_kill = turns[2].to_kill
    /\ turns[1].to_kill \in DeadLabels

====
